---- MODULE Spec2Model ----
(***************************************************************************)
(* Model of email-sender.c: the CRLF sanitizer, the message composer, the  *)
(* libcurl read callback and the control flow of main.                     *)
(*                                                                         *)
(* A C string is a sequence of bytes; a byte is a one-character string.    *)
(* Indices in the C code are 0-based, sequences here are 1-based, so the   *)
(* C expression input[i] is input[i + 1] below.                            *)
(***************************************************************************)
EXTENDS Integers, Sequences, FiniteSets, TLC

VARIABLES
    pc,               \* position of main
    argv,             \* the command line: option -> optarg (NULL when absent)
    args,             \* main's locals set by the getopt loop
    body,             \* char *body (contents of the body file)
    message,          \* char *message
    msg_len,          \* size_t msg_len
    p,                \* struct payload p
    curl,             \* CURL *curl
    res,              \* CURLcode res
    exit_code,        \* the value main returned (NoExit while running)
    printed,          \* the last text main printed (usage or a diagnostic)
    file_reads,       \* calls of read_file
    perform_calls,    \* calls of curl_easy_perform
    free_count,       \* calls of free(message)
    delivered,        \* concatenation of the chunks payload_source copied out
    last_cap,         \* size * nmemb of the last payload_source call
    last_ret,         \* return value of the last payload_source call
    read_after_free,  \* payload_source ran on a released buffer
    s_input,          \* sanitize_crlf: input
    s_i,              \* sanitize_crlf: i
    s_out,            \* sanitize_crlf: out[0 .. j-1]  (j = Len(s_out))
    s_pass,           \* sanitize_crlf: position of the caller of the sanitizer
    s_first           \* result of the first sanitize_crlf call

mainVars == <<pc, argv, args, body, message, msg_len, p, curl, res, exit_code,
              printed, file_reads, perform_calls, free_count, delivered,
              last_cap, last_ret, read_after_free>>
sanVars == <<s_input, s_i, s_out, s_pass, s_first>>
vars == <<mainVars, sanVars>>

(***************************************************************************)
(* Bytes and bounds                                                        *)
(***************************************************************************)
CR == "\r"
LF == "\n"
CRLF == <<CR, LF>>

\* The null pointer: a value no C string equals.
NULL == <<"(null)">>

\* Bytes the bounded inputs are drawn from.
Byte == {CR, LF, "x", ":"}

\* Longest input handed to the sanitizer on its own.
MaxLen == 4
\* Longest total length of from, to, subject and body handed to the composer.
MaxTotal == 4
\* Largest buffer capacity libcurl offers payload_source.
MaxCap == 3
\* Largest CURLcode curl_easy_perform returns (CURLE_OK is 0).
MaxCurlCode == 3

Strs(n) == UNION {[1..k -> Byte] : k \in 0..n}

(***************************************************************************)
(* sanitize_crlf                                                           *)
(***************************************************************************)
\* A variant that always inserts a CR before an LF.
SanitizeStepAlwaysCR(input, i, out) ==
    LET c == input[i + 1] IN
    IF c = LF THEN out \o <<CR, LF>> ELSE out \o <<c>>

\* A variant that forgets the i == 0 case.
SanitizeStepNoFirst(input, i, out) ==
    LET c == input[i + 1] IN
    IF c = LF
    THEN IF i # 0 /\ input[i] # CR THEN out \o <<CR, LF>> ELSE out \o <<LF>>
    ELSE out \o <<c>>

\* A variant with the test of the preceding byte inverted.
SanitizeStepInverted(input, i, out) ==
    LET c == input[i + 1] IN
    IF c = LF
    THEN IF i # 0 /\ input[i] = CR THEN out \o <<CR, LF>> ELSE out \o <<LF>>
    ELSE out \o <<c>>

\* The body of the for loop: out after iteration i.
SanitizeStep(input, i, out) ==
    LET c == input[i + 1] IN
    IF c = LF
    THEN IF i = 0 \/ input[i] # CR THEN out \o <<CR, LF>> ELSE out \o <<LF>>
    ELSE out \o <<c>>

RECURSIVE SanitizeLoop(_, _, _)
SanitizeLoop(input, i, out) ==
    IF i < Len(input)
    THEN SanitizeLoop(input, i + 1, SanitizeStep(input, i, out))
    ELSE out

\* The result when malloc succeeds.
sanitize_crlf(input) ==
    IF input = NULL THEN NULL ELSE SanitizeLoop(input, 0, <<>>)

\* Bytes malloc'ed for out.
SanitizeAlloc(in_len) == in_len * 2 + 1

(***************************************************************************)
(* rfc2822_date                                                            *)
(***************************************************************************)
DayName == << <<"S", "u", "n">>, <<"M", "o", "n">>, <<"T", "u", "e">>,
              <<"W", "e", "d">>, <<"T", "h", "u">>, <<"F", "r", "i">>,
              <<"S", "a", "t">> >>
MonthName == << <<"J", "a", "n">>, <<"F", "e", "b">>, <<"M", "a", "r">>,
                <<"A", "p", "r">>, <<"M", "a", "y">>, <<"J", "u", "n">>,
                <<"J", "u", "l">>, <<"A", "u", "g">>, <<"S", "e", "p">>,
                <<"O", "c", "t">>, <<"N", "o", "v">>, <<"D", "e", "c">> >>
Digit == <<"0", "1", "2", "3", "4", "5", "6", "7", "8", "9">>

D2(n) == <<Digit[((n \div 10) % 10) + 1], Digit[(n % 10) + 1]>>
D4(n) == D2(n \div 100) \o D2(n % 100)

\* gmtime_r for now >= 0: the broken-down UTC time.
gmtime(now) ==
    LET days == now \div 86400
        secs == now % 86400
        z    == days + 719468
        era  == z \div 146097
        doe  == z - era * 146097
        yoe  == (doe - doe \div 1460 + doe \div 36524 - doe \div 146096) \div 365
        doy  == doe - (365 * yoe + yoe \div 4 - yoe \div 100)
        mp   == (5 * doy + 2) \div 153
        mon  == IF mp < 10 THEN mp + 3 ELSE mp - 9
    IN  [tm_wday |-> (days + 4) % 7,
         tm_mday |-> doy - (153 * mp + 2) \div 5 + 1,
         tm_mon  |-> mon - 1,
         tm_year |-> yoe + era * 400 + (IF mon <= 2 THEN 1 ELSE 0),
         tm_hour |-> secs \div 3600,
         tm_min  |-> (secs % 3600) \div 60,
         tm_sec  |-> secs % 60]

\* strftime(buf, buflen, "%a, %d %b %Y %H:%M:%S +0000", &tm)
rfc2822_date(now) ==
    LET tm == gmtime(now) IN
    DayName[tm.tm_wday + 1] \o <<",", " ">> \o D2(tm.tm_mday) \o <<" ">>
    \o MonthName[tm.tm_mon + 1] \o <<" ">> \o D4(tm.tm_year) \o <<" ">>
    \o D2(tm.tm_hour) \o <<":">> \o D2(tm.tm_min) \o <<":">> \o D2(tm.tm_sec)
    \o <<" ", "+", "0", "0", "0", "0">>

\* Values time(NULL) returns: the epoch and 2024-11-05 14:30:00 UTC.
Times == {0, 1730817000}

(***************************************************************************)
(* build_message_crlf                                                      *)
(***************************************************************************)
\* snprintf(..., hdr_fmt, datebuf, from, to, subject_crlf)
hdr_fmt(datebuf, from, to, subject_crlf) ==
    <<"D", "a", "t", "e", ":", " ">> \o datebuf \o CRLF
    \o <<"F", "r", "o", "m", ":", " ", "<">> \o from \o <<">">> \o CRLF
    \o <<"T", "o", ":", " ", "<">> \o to \o <<">">> \o CRLF
    \o <<"S", "u", "b", "j", "e", "c", "t", ":", " ">> \o subject_crlf \o CRLF
    \o <<"M", "I", "M", "E", "-", "V", "e", "r", "s", "i", "o", "n", ":", " ",
         "1", ".", "0">> \o CRLF
    \o <<"C", "o", "n", "t", "e", "n", "t", "-", "T", "y", "p", "e", ":", " ",
         "t", "e", "x", "t", "/", "h", "t", "m", "l", ";", " ",
         "c", "h", "a", "r", "s", "e", "t", "=", "U", "T", "F", "-", "8">> \o CRLF
    \o CRLF

\* The buffer build_message_crlf returns when every malloc succeeds.
build_message_crlf(from, to, subject, html_body, now) ==
    LET datebuf      == rfc2822_date(now)
        subject_crlf == sanitize_crlf(subject)
        body_crlf    == sanitize_crlf(html_body)
    IN  hdr_fmt(datebuf, from, to, subject_crlf) \o body_crlf

(***************************************************************************)
(* payload_source                                                          *)
(***************************************************************************)
\* A variant without the clamp of n to the offered capacity.
payload_source_noclamp(pp, cap) ==
    IF pp.pos >= pp.len
    THEN [n |-> 0, chunk |-> <<>>, p |-> pp]
    ELSE LET n == pp.len - pp.pos
         IN  [n     |-> n,
              chunk |-> SubSeq(pp.data, pp.pos + 1, pp.pos + n),
              p     |-> [pp EXCEPT !.pos = pp.pos + n]]

\* One call with cap = size * nmemb: the value returned, the bytes copied to
\* ptr and the payload afterwards.
payload_source(pp, cap) ==
    IF pp.pos >= pp.len
    THEN [n |-> 0, chunk |-> <<>>, p |-> pp]
    ELSE LET n0 == pp.len - pp.pos
             n  == IF n0 > cap THEN cap ELSE n0
         IN  [n     |-> n,
              chunk |-> SubSeq(pp.data, pp.pos + 1, pp.pos + n),
              p     |-> [pp EXCEPT !.pos = pp.pos + n]]

(***************************************************************************)
(* main: the command line                                                  *)
(***************************************************************************)
DEFAULT_SMTP_HOST == <<"s", "m", "t", "p", ".", "o", "f", "f", "i", "c", "e", "3", "6", "5", ".", "c", "o", "m">>
DEFAULT_SMTP_PORT == 587
\* The initial value of subject.
NoSubject == <<"N", "o", " ", "s", "u", "b", "j", "e", "c", "t">>

\* Sample option arguments.
HostArg == <<"m", "x", ".", "y", ".", "c", "o", "m">>
PortArg == <<"2", "5">>
NameArg == <<"A">>
FromArg == <<"a", "@", "x", ".", "c", "o", "m">>
ToArg == <<"b", "@", "y", ".", "c", "o", "m">>
UserArg == <<"a", "@", "x", ".", "c", "o", "m">>
TokenArg == <<"t", "o", "k">>
FileArg == <<"b", "o", "d", "y", ".", "h", "t", "m", "l">>
SubjectArgs == {<<"T", "e", "s", "t">>,
                <<"H", "i", "\n", "B", "c", "c", ":", " ", "x">>}
\* Sample contents of the body file.
FileContents == {<<>>, <<"<", "p", ">", "H", "i", "<", "/", "p", ">", "\n">>}

\* Every command line over the sample arguments: an option's field is its
\* optarg, NULL when the option is absent; h is --help, bad an option getopt
\* reports as '?'.
ArgvSet ==
    [s : {NULL, HostArg}, P : {NULL, PortArg}, n : {NULL, NameArg},
     f : {NULL, FromArg}, t : {NULL, ToArg}, j : {NULL} \cup SubjectArgs,
     u : {NULL, UserArg}, T : {NULL, TokenArg}, F : {NULL, FileArg},
     h : BOOLEAN, bad : BOOLEAN]

RECURSIVE atoi_from(_, _, _)
atoi_from(str, k, acc) ==
    IF k <= Len(str) /\ \E d \in 0..9 : Digit[d + 1] = str[k]
    THEN atoi_from(str, k + 1,
                   acc * 10 + (CHOOSE d \in 0..9 : Digit[d + 1] = str[k]))
    ELSE acc
atoi(str) == atoi_from(str, 1, 0)

\* main's locals as initialised at their declaration.
InitialArgs ==
    [server_host |-> DEFAULT_SMTP_HOST, server_port |-> DEFAULT_SMTP_PORT,
     from_name |-> NULL, from |-> NULL, to |-> NULL, subject |-> NoSubject,
     username |-> NULL, token |-> NULL, filename |-> NULL]

\* The value a local holds after the getopt loop saw optarg v (or no option).
Opt(v, old) == IF v # NULL THEN v ELSE old

\* exit_code while main has not returned.
NoExit == 0 - 1

(***************************************************************************)
(* main                                                                    *)
(***************************************************************************)
SanitizerIdle ==
    /\ s_input = <<>>
    /\ s_i = 0
    /\ s_out = <<>>
    /\ s_pass = "idle"
    /\ s_first = <<>>

\* Everything of main's state but the command line, at entry to main.
MainEntry ==
    /\ pc = "getopt"
    /\ args = InitialArgs
    /\ body = NULL
    /\ message = NULL
    /\ msg_len = 0
    /\ p = [data |-> NULL, len |-> 0, pos |-> 0]
    /\ curl = "none"
    /\ res = 0
    /\ exit_code = NoExit
    /\ printed = ""
    /\ file_reads = 0
    /\ perform_calls = 0
    /\ free_count = 0
    /\ delivered = <<>>
    /\ last_cap = 0
    /\ last_ret = 0
    /\ read_after_free = FALSE

Init ==
    /\ argv \in ArgvSet
    /\ MainEntry
    /\ SanitizerIdle

\* usage(argv[0]); return 1;
UsageExit ==
    /\ printed' = "usage"
    /\ exit_code' = 1
    /\ pc' = "exited"

\* The getopt_long loop.
ParseArgs ==
    /\ pc = "getopt"
    /\ \/ /\ argv.h \/ argv.bad
          /\ UsageExit
          /\ UNCHANGED args
       \/ /\ ~(argv.h \/ argv.bad)
          /\ args' = [server_host |-> Opt(argv.s, args.server_host),
                      server_port |-> IF argv.P # NULL THEN atoi(argv.P)
                                      ELSE args.server_port,
                      from_name   |-> Opt(argv.n, args.from_name),
                      from        |-> Opt(argv.f, args.from),
                      to          |-> Opt(argv.t, args.to),
                      subject     |-> Opt(argv.j, args.subject),
                      username    |-> Opt(argv.u, args.username),
                      token       |-> Opt(argv.T, args.token),
                      filename    |-> Opt(argv.F, args.filename)]
          /\ pc' = "validate"
          /\ UNCHANGED <<printed, exit_code>>
    /\ UNCHANGED <<argv, body, message, msg_len, p, curl, res, file_reads,
                   perform_calls, free_count, delivered, last_cap, last_ret,
                   read_after_free, sanVars>>

\* !from_name || !from || !to || !username || !token || !filename
MissingRequired ==
    \/ args.from_name = NULL
    \/ args.from = NULL
    \/ args.to = NULL
    \/ args.username = NULL
    \/ args.token = NULL
    \/ args.filename = NULL

Validate ==
    /\ pc = "validate"
    /\ \/ /\ MissingRequired
          /\ UsageExit
       \/ /\ ~MissingRequired
          /\ pc' = "read_file"
          /\ UNCHANGED <<printed, exit_code>>
    /\ UNCHANGED <<argv, args, body, message, msg_len, p, curl, res, file_reads,
                   perform_calls, free_count, delivered, last_cap, last_ret,
                   read_after_free, sanVars>>

\* read_file(filename, &body, &body_len) and the test of its result.
ReadFile ==
    /\ pc = "read_file"
    /\ file_reads' = file_reads + 1
    /\ \/ /\ printed' = "Failed to read"
          /\ exit_code' = 1
          /\ pc' = "exited"
          /\ UNCHANGED body
       \/ /\ \E content \in FileContents : body' = content
          /\ pc' = "build"
          /\ UNCHANGED <<printed, exit_code>>
    /\ UNCHANGED <<argv, args, message, msg_len, p, curl, res,
                   perform_calls, free_count, delivered, last_cap, last_ret,
                   read_after_free, sanVars>>

\* message = build_message_crlf(...); free(body); and the test of message.
\* build_message_crlf returns NULL when one of its allocations fails.
BuildMessage ==
    /\ pc = "build"
    /\ body' = NULL
    /\ \/ /\ message' = NULL
          /\ printed' = "Failed to build message."
          /\ exit_code' = 1
          /\ pc' = "exited"
          /\ UNCHANGED msg_len
       \/ /\ \E now \in Times :
                message' = build_message_crlf(args.from, args.to, args.subject,
                                              body, now)
          /\ msg_len' = Len(message')
          /\ pc' = "curl_init"
          /\ UNCHANGED <<printed, exit_code>>
    /\ UNCHANGED <<argv, args, p, curl, res, file_reads,
                   perform_calls, free_count, delivered, last_cap, last_ret,
                   read_after_free, sanVars>>

\* A variant that does not release the message when curl_easy_init fails.
CurlInitLeak ==
    /\ pc = "curl_init"
    /\ p' = [data |-> message, len |-> msg_len, pos |-> 0]
    /\ \/ /\ curl' = "null"
          /\ printed' = "curl_easy_init() failed"
          /\ exit_code' = 1
          /\ pc' = "exited"
       \/ /\ curl' = "handle"
          /\ pc' = "perform"
          /\ UNCHANGED <<printed, exit_code>>
    /\ UNCHANGED <<argv, args, body, message, msg_len, res,
                   file_reads, perform_calls, free_count, delivered, last_cap,
                   last_ret, read_after_free, sanVars>>

\* struct payload p = { message, msg_len, 0 }; curl = curl_easy_init();
CurlInit ==
    /\ pc = "curl_init"
    /\ p' = [data |-> message, len |-> msg_len, pos |-> 0]
    /\ \/ /\ curl' = "null"
          /\ printed' = "curl_easy_init() failed"
          /\ free_count' = free_count + 1
          /\ exit_code' = 1
          /\ pc' = "exited"
       \/ /\ curl' = "handle"
          /\ pc' = "perform"
          /\ UNCHANGED <<printed, free_count, exit_code>>
    /\ UNCHANGED <<argv, args, body, message, msg_len, res,
                   file_reads, perform_calls, delivered, last_cap, last_ret,
                   read_after_free, sanVars>>

\* The curl_easy_setopt calls and the entry into curl_easy_perform(curl).
PerformStart ==
    /\ pc = "perform"
    /\ perform_calls' = perform_calls + 1
    /\ pc' = "performing"
    /\ UNCHANGED <<argv, args, body, message, msg_len, p, curl, res, exit_code,
                   printed, file_reads, free_count, delivered, last_cap,
                   last_ret, read_after_free, sanVars>>

\* libcurl calls the CURLOPT_READFUNCTION with a buffer of cap bytes.
PayloadSourceCall ==
    /\ pc = "performing"
    /\ \E cap \in 0..MaxCap :
          LET r == payload_source(p, cap) IN
          /\ p' = r.p
          /\ delivered' = delivered \o r.chunk
          /\ last_cap' = cap
          /\ last_ret' = r.n
          /\ read_after_free' = (read_after_free \/ (free_count > 0 /\ r.n > 0))
    /\ UNCHANGED <<pc, argv, args, body, message, msg_len, curl, res, exit_code,
                   printed, file_reads, perform_calls, free_count, sanVars>>

\* A variant in which a failed transfer is attempted again.
PerformReturnRetry ==
    /\ pc = "performing"
    /\ \E r \in 0..MaxCurlCode :
          /\ res' = r
          /\ pc' = IF r # 0 /\ perform_calls < 2 THEN "perform" ELSE "report"
    /\ UNCHANGED <<argv, args, body, message, msg_len, p, curl, exit_code,
                   printed, file_reads, perform_calls, free_count,
                   delivered, last_cap, last_ret, read_after_free, sanVars>>

\* curl_easy_perform returns its CURLcode (CURLE_OK is 0).
PerformReturn ==
    /\ pc = "performing"
    /\ \E r \in 0..MaxCurlCode : res' = r
    /\ pc' = "report"
    /\ UNCHANGED <<argv, args, body, message, msg_len, p, curl, exit_code,
                   printed, file_reads, perform_calls, free_count,
                   delivered, last_cap, last_ret, read_after_free, sanVars>>

\* A variant that returns 1 for every failure.
CleanupReturnOne ==
    /\ pc = "report"
    /\ printed' = IF res # 0 THEN "Send failed"
                   ELSE "Message sent successfully"
    /\ free_count' = free_count + 1
    /\ exit_code' = IF res # 0 THEN 1 ELSE 0
    /\ pc' = "exited"
    /\ UNCHANGED <<argv, args, body, message, msg_len, p, curl, res,
                   file_reads, perform_calls, delivered,
                   last_cap, last_ret, read_after_free, sanVars>>

\* The report of res, the cleanup, free(message) and return (int)res.
Cleanup ==
    /\ pc = "report"
    /\ printed' = IF res # 0 THEN "Send failed"
                   ELSE "Message sent successfully"
    /\ free_count' = free_count + 1
    /\ exit_code' = res
    /\ pc' = "exited"
    /\ UNCHANGED <<argv, args, body, message, msg_len, p, curl, res,
                   file_reads, perform_calls, delivered,
                   last_cap, last_ret, read_after_free, sanVars>>

Next ==
    \/ ParseArgs
    \/ Validate
    \/ ReadFile
    \/ BuildMessage
    \/ CurlInit
    \/ PerformStart
    \/ PayloadSourceCall
    \/ PerformReturn
    \/ Cleanup

Spec == Init /\ [][Next]_vars

(***************************************************************************)
(* The composer on its own: main at the call of build_message_crlf, with   *)
(* from, to, subject and the file contents drawn from the bounded strings. *)
(***************************************************************************)
InitBuild ==
    /\ \E from \in Strs(MaxTotal) :
       \E to \in Strs(MaxTotal - Len(from)) :
       \E subject \in Strs(MaxTotal - Len(from) - Len(to)) :
       \E html_body \in Strs(MaxTotal - Len(from) - Len(to) - Len(subject)) :
          /\ argv = [s |-> NULL, P |-> NULL, n |-> NameArg, f |-> from,
                     t |-> to, j |-> subject, u |-> UserArg, T |-> TokenArg,
                     F |-> FileArg, h |-> FALSE, bad |-> FALSE]
          /\ args = [InitialArgs EXCEPT !.from_name = NameArg, !.from = from,
                                        !.to = to, !.subject = subject,
                                        !.username = UserArg,
                                        !.token = TokenArg,
                                        !.filename = FileArg]
          /\ body = html_body
    /\ pc = "build"
    /\ message = NULL
    /\ msg_len = 0
    /\ p = [data |-> NULL, len |-> 0, pos |-> 0]
    /\ curl = "none"
    /\ res = 0
    /\ exit_code = NoExit
    /\ printed = ""
    /\ file_reads = 1
    /\ perform_calls = 0
    /\ free_count = 0
    /\ delivered = <<>>
    /\ last_cap = 0
    /\ last_ret = 0
    /\ read_after_free = FALSE
    /\ SanitizerIdle

NextBuild == BuildMessage

SpecBuild == InitBuild /\ [][NextBuild]_vars

(***************************************************************************)
(* The sanitizer on its own, one loop iteration per step: a first call on  *)
(* a bounded input, then a second call on the result of the first.         *)
(***************************************************************************)
InitSanitize ==
    /\ s_input \in Strs(MaxLen)
    /\ s_i = 0
    /\ s_out = <<>>
    /\ s_pass = "first"
    /\ s_first = <<>>
    /\ argv = [s |-> NULL, P |-> NULL, n |-> NULL, f |-> NULL, t |-> NULL,
               j |-> NULL, u |-> NULL, T |-> NULL, F |-> NULL, h |-> FALSE,
               bad |-> FALSE]
    /\ MainEntry

\* out = malloc(in_len * 2 + 1) returned NULL: sanitize_crlf returns NULL.
SanitizeMallocFail ==
    /\ s_pass \in {"first", "second"}
    /\ s_i = 0
    /\ s_out = <<>>
    /\ s_pass' = "failed"
    /\ UNCHANGED <<s_input, s_i, s_out, s_first, mainVars>>

\* One iteration of the for loop.
SanitizeIter ==
    /\ s_pass \in {"first", "second"}
    /\ s_i < Len(s_input)
    /\ s_out' = SanitizeStep(s_input, s_i, s_out)
    /\ s_i' = s_i + 1
    /\ UNCHANGED <<s_input, s_pass, s_first, mainVars>>

\* The loop is over: out[j] = '\0'; *out_len = j; return out;
SanitizeReturn ==
    /\ s_pass \in {"first", "second"}
    /\ ~(s_i < Len(s_input))
    /\ s_pass' = IF s_pass = "first" THEN "first_done" ELSE "second_done"
    /\ s_first' = IF s_pass = "first" THEN s_out ELSE s_first
    /\ UNCHANGED <<s_input, s_i, s_out, mainVars>>

\* The caller hands the result to sanitize_crlf again.
SanitizeAgain ==
    /\ s_pass = "first_done"
    /\ s_input' = s_out
    /\ s_i' = 0
    /\ s_out' = <<>>
    /\ s_pass' = "second"
    /\ UNCHANGED <<s_first, mainVars>>

NextSanitize ==
    \/ SanitizeMallocFail
    \/ SanitizeIter
    \/ SanitizeReturn
    \/ SanitizeAgain

SpecSanitize == InitSanitize /\ [][NextSanitize]_vars

(***************************************************************************)
(* Properties                                                              *)
(***************************************************************************)
\* No LF of str is without a CR right before it.
NoBareLF(str) ==
    \A k \in 1..Len(str) : str[k] = LF => (k > 1 /\ str[k - 1] = CR)

\* The number of LF bytes of str that no CR precedes.
BareLFCount(str) ==
    Cardinality({k \in 1..Len(str) :
                    str[k] = LF /\ (k = 1 \/ str[k - 1] # CR)})

HasCRorLF(str) == \E k \in 1..Len(str) : str[k] \in {CR, LF}

\* The positions at which a CRLF pair of str begins.
CRLFAt(str) == {k \in 1..(Len(str) - 1) : str[k] = CR /\ str[k + 1] = LF}

\* The j-th smallest element of the set of numbers S.
Nth(S, j) == CHOOSE k \in S : Cardinality({m \in S : m < k}) = j - 1

\* The lines of str: the pieces between its CRLF pairs.
SplitCRLF(str) ==
    LET B == CRLFAt(str)
        n == Cardinality(B)
    IN  [j \in 1..(n + 1) |->
            SubSeq(str,
                   IF j = 1 THEN 1 ELSE Nth(B, j - 1) + 2,
                   IF j <= n THEN Nth(B, j) - 1 ELSE Len(str))]

\* The lines before the first empty line.
LinesBeforeBlank(lines) ==
    LET blank == {j \in 1..Len(lines) : lines[j] = <<>>}
    IN  IF blank = {} THEN lines
        ELSE SubSeq(lines, 1, Nth(blank, 1) - 1)

HeaderLines(msg) == LinesBeforeBlank(SplitCRLF(msg))

StartsWith(str, prefix) ==
    Len(str) >= Len(prefix) /\ SubSeq(str, 1, Len(prefix)) = prefix

\* The names of the six header fields, in order.
HeaderNames ==
    << <<"D", "a", "t", "e", ":">>, <<"F", "r", "o", "m", ":">>,
       <<"T", "o", ":">>,
       <<"S", "u", "b", "j", "e", "c", "t", ":">>,
       <<"M", "I", "M", "E", "-", "V", "e", "r", "s", "i", "o", "n", ":">>,
       <<"C", "o", "n", "t", "e", "n", "t", "-", "T", "y", "p", "e", ":">> >>

\* The header block is the six header lines and then the blank line.
SixHeaderLines(msg) ==
    LET lines == SplitCRLF(msg)
        hdr   == HeaderLines(msg)
    IN  /\ Len(hdr) = Len(HeaderNames)
        /\ \A k \in 1..Len(hdr) : StartsWith(hdr[k], HeaderNames[k])
        /\ Len(lines) > Len(hdr)

SanitizeDone == s_pass \in {"first_done", "second_done"}

\* C1: the buffer build_message_crlf returns has no bare LF, whatever the
\* sender, recipient, subject and body are.
C1_MessageNoBareLF ==
    message # NULL => NoBareLF(message)

\* C2: the header block of the composed message is exactly the six header
\* lines Date, From, To, Subject, MIME-Version, Content-Type followed by the
\* blank line, whatever the subject is (sender and recipient being plain
\* one-line addresses).
C2_NoHeaderInjection ==
    (message # NULL /\ ~HasCRorLF(args.from) /\ ~HasCRorLF(args.to))
        => SixHeaderLines(message)

FiveRequiredGiven ==
    /\ argv.f # NULL
    /\ argv.t # NULL
    /\ argv.u # NULL
    /\ argv.T # NULL
    /\ argv.F # NULL

\* C3: main prints usage and exits 1, with no file read and no connection,
\* exactly when one of --from, --to, --username, --token, --file is missing
\* or help or an unknown option is given; otherwise it goes on to read the
\* body file.
C3_ArgumentValidation ==
    pc \notin {"getopt", "validate"} =>
        /\ (printed = "usage") <=> (~FiveRequiredGiven \/ argv.h \/ argv.bad)
        /\ (printed = "usage") =>
              (pc = "exited" /\ exit_code = 1 /\ file_reads = 0
               /\ perform_calls = 0)
        /\ (printed # "usage") => (pc = "read_file" \/ file_reads = 1)

\* C4: the exit status is 0 exactly when curl_easy_perform was called and
\* returned CURLE_OK; it is 1 after a usage, file read or composition
\* failure; after a failed curl_easy_perform it is that call's non-zero code.
C4_ExitStatus ==
    pc = "exited" =>
        /\ (exit_code = 0) <=> (perform_calls = 1 /\ res = 0)
        /\ printed \in {"usage", "Failed to read", "Failed to build message."}
              => exit_code = 1
        /\ (perform_calls = 1 /\ res # 0) => (exit_code = res /\ exit_code # 0)

C4_Witness ==
    /\ pc = "exited"
    /\ perform_calls = 1
    /\ res = 2
    /\ exit_code = 2

\* C5 as stated: every run that passes validation, file read and composition
\* makes exactly one curl_easy_perform call; a failed call is not followed by
\* another and the run ends with a non-zero status after reporting it.
C5_ExactlyOneAttempt ==
    /\ perform_calls <= 1
    /\ (pc = "exited" /\ message # NULL) => perform_calls = 1
    /\ (pc = "exited" /\ perform_calls = 1 /\ res # 0)
          => (exit_code # 0 /\ printed = "Send failed")

\* C5 amended: every run that passes validation, file read, composition and
\* curl_easy_init makes exactly one curl_easy_perform call; a failed call is
\* not followed by another and the run ends with a non-zero status after
\* reporting it; when curl_easy_init fails no call is made and the run ends
\* with status 1.
C5_OneAttemptAfterInit ==
    /\ perform_calls <= 1
    /\ (pc = "exited" /\ message # NULL /\ curl = "handle") => perform_calls = 1
    /\ (pc = "exited" /\ message # NULL /\ curl = "null")
          => (perform_calls = 0 /\ exit_code = 1
              /\ printed = "curl_easy_init() failed")
    /\ (pc = "exited" /\ perform_calls = 1 /\ res # 0)
          => (exit_code # 0 /\ printed = "Send failed")

C5_Witness ==
    /\ pc = "exited"
    /\ message # NULL
    /\ perform_calls = 1
    /\ res # 0
    /\ printed = "Send failed"

\* C6: a buffer build_message_crlf returned is released exactly once before
\* main exits, on every path; it is not released while curl_easy_perform is
\* still to be called or running, and payload_source never reads from it
\* after the release.
C6_MessageLifetime ==
    message # NULL =>
        /\ free_count <= 1
        /\ pc = "exited" => free_count = 1
        /\ pc # "exited" => free_count = 0
        /\ ~read_after_free

C6_Witness ==
    /\ pc = "exited"
    /\ message # NULL
    /\ curl = "handle"
    /\ res # 0
    /\ p.pos > 0
    /\ free_count = 1

\* C7: the output of sanitize_crlf has no LF without a CR right before it,
\* at the return and after every iteration of its loop.
C7_SanitizeComplete ==
    NoBareLF(s_out)

C7_Witness ==
    /\ s_pass = "first_done"
    /\ s_input = <<LF, CR, LF, CR>>
    /\ s_out = <<CR, LF, CR, LF, CR>>

\* C8: after i iterations the write index j is i plus the number of bare LFs
\* among the first i input bytes, hence at most 2 * i, and out[j] lies within
\* the in_len * 2 + 1 bytes allocated; the returned length is the input
\* length plus the number of bare LFs of the input.
C8_SanitizeLength ==
    /\ Len(s_out) = s_i + BareLFCount(SubSeq(s_input, 1, s_i))
    /\ Len(s_out) <= 2 * s_i
    /\ s_i <= Len(s_input)
    /\ Len(s_out) < SanitizeAlloc(Len(s_input))
    /\ SanitizeDone =>
          /\ Len(s_out) = Len(s_input) + BareLFCount(s_input)
          /\ Len(s_out) <= 2 * Len(s_input)

C8_Witness ==
    /\ s_pass = "first_done"
    /\ s_input = <<LF, LF, LF, LF>>
    /\ Len(s_out) = 8

\* C9: sanitize_crlf returns an input without bare LF unchanged, and so the
\* second call, on the result of the first, returns that result again.
C9_SanitizeIdempotent ==
    /\ (SanitizeDone /\ NoBareLF(s_input)) => s_out = s_input
    /\ s_pass = "second_done" => s_out = s_first

C9_Witness ==
    /\ s_pass = "second_done"
    /\ s_input = <<CR, LF, "x", CR, LF, CR>>
    /\ s_out = s_input

\* C10, in every state: the read position is within the message, the last
\* call returned no more than the capacity it was offered, and the chunks
\* delivered so far are the first pos bytes of the message (all of it once
\* pos has reached len).
PayloadInv ==
    /\ p.pos >= 0
    /\ p.pos <= p.len
    /\ last_ret <= last_cap
    /\ p.data # NULL =>
          /\ p.data = message
          /\ p.len = Len(message)
          /\ delivered = SubSeq(message, 1, p.pos)
          /\ p.pos = p.len => delivered = message

\* C10, in every step: the read position never decreases, and a call made
\* once the position has reached the length returns 0, delivers nothing and
\* leaves the position where it is.
PayloadStep ==
    /\ p'.pos >= p.pos
    /\ (pc = "performing" /\ pc' = "performing" /\ p.pos >= p.len)
          => (last_ret' = 0 /\ delivered' = delivered /\ p' = p)

\* C10: payload_source streams the message once, in order, in chunks no
\* larger than the capacity offered, and returns 0 from then on.
C10_PayloadSourceOneShot ==
    [](PayloadInv) /\ [][PayloadStep]_vars

C10_Witness ==
    /\ pc = "performing"
    /\ p.len > 0
    /\ p.pos = p.len
    /\ last_cap > 0
    /\ last_ret = 0
    /\ delivered = message

====
